---- MODULE Spec2Model ----
(***************************************************************************)
(* CityFacts frontend: the App component of                                *)
(* Frontend/cityfacts-frontend/src/App.jsx.  The file holds two versions   *)
(* of the component: the fetch version (lines 6-104, one GET, port 4050)   *)
(* and the axios version (lines 113-204, GET, generation GET and POST,     *)
(* port 8000).  The variable `variant` says which one is mounted.          *)
(*                                                                         *)
(* A handler runs to completion between two awaits, so one action is one   *)
(* synchronous segment of handleSubmit: the segment from the submit event  *)
(* to the first await, and one segment per await that resumes.             *)
(***************************************************************************)
EXTENDS Integers, Sequences, FiniteSets, TLC

VARIABLES
    variant,          \* "fetch" | "axios": which App is mounted
    cityName,         \* useState: the input's value, a string
    cityFacts,        \* useState: a JS value (a string, or undefined once set so)
    isLoading,        \* useState: boolean
    error,            \* useState: a message string
    pc,               \* where handleSubmit is suspended: "idle" when it is not running
    closureCityName,  \* the cityName the running handleSubmit closed over
    response,         \* fetch version: the Response held between fetch and json()
    requests,         \* the requests issued by the current or latest submit that passed validation
    responses,        \* the settled outcomes of those requests, in order
    lastEvent,        \* the handler segment that ran last
    factsBefore       \* history: cityFacts when the latest submit began

vars == <<variant, cityName, cityFacts, isLoading, error, pc, closureCityName,
          response, requests, responses, lastEvent, factsBefore>>

(***************************************************************************)
(* Values.  A string that the code trims or splits is a sequence of        *)
(* one-character strings; a message is a plain string.                     *)
(***************************************************************************)

\* a JS value that is a string of characters, or undefined
Str(s) == [t |-> "string", v |-> s]

Undefined == [t |-> "undefined", v |-> <<>>]

\* JS truthiness of such a value: undefined and "" are falsy
Truthy(x) == x.t = "string" /\ x.v # <<>>

\* a message-valued JS value (the detail field of an error payload)
Msg(m) == [t |-> "string", v |-> m]

NoDetail == [t |-> "undefined", v |-> ""]

MaxNameLen == 2

NameChars == {" ", "P"}

\* the strings over the characters cs of length at most n
Strings(cs, n) == UNION { [1..k -> cs] : k \in 0..n }

\* the values typed into the input
CityNames == Strings(NameChars, MaxNameLen)

\* the facts field of a response body: absent, or a string
FactsValues == { Undefined, Str(<<>>), Str(<<"a">>), Str(<<"a", "\n", "b">>) }

\* the detail field of an error payload
Details == { NoDetail, Msg(""), Msg("City not found") }

IsSpace(c) == c \in {" ", "\n", "\t"}

RECURSIVE TrimStart(_)
TrimStart(s) == IF s # <<>> /\ IsSpace(Head(s)) THEN TrimStart(Tail(s)) ELSE s

RECURSIVE TrimEnd(_)
TrimEnd(s) ==
    IF s # <<>> /\ IsSpace(s[Len(s)]) THEN TrimEnd(SubSeq(s, 1, Len(s) - 1)) ELSE s

TrimNothing(s) == s

\* String.prototype.trim
Trim(s) == TrimEnd(TrimStart(s))

(***************************************************************************)
(* Requests and responses.                                                 *)
(***************************************************************************)

NoBody == [name |-> <<>>, facts |-> Undefined]

BaseUrl == IF variant = "fetch" THEN "http://localhost:4050" ELSE "http://localhost:8000"

GetCity(name) ==
    [method |-> "GET", base |-> BaseUrl, path |-> "/city/", name |-> name, body |-> NoBody]

GetGemini(name) ==
    [method |-> "GET", base |-> BaseUrl, path |-> "/city/gemini/", name |-> name, body |-> NoBody]

postBodyStale(name, facts) == [name |-> name, facts |-> cityFacts]

postBody(name, facts) == [name |-> name, facts |-> facts]

PostCity(name, facts) ==
    [method |-> "POST", base |-> BaseUrl, path |-> "/city", name |-> <<>>,
     body |-> postBody(name, facts)]

NoResponse == [status |-> "none", body |-> "none", facts |-> Undefined, detail |-> NoDetail]

\* what the backend, or the network, can answer to one request
Responses ==
    { [status |-> "network_error", body |-> "none", facts |-> Undefined, detail |-> NoDetail] }
    \cup { [status |-> "http_error", body |-> "object", facts |-> Undefined, detail |-> d] :
             d \in Details }
    \cup { [status |-> "ok", body |-> "object", facts |-> f, detail |-> NoDetail] :
             f \in FactsValues }
    \cup { [status |-> "ok", body |-> b, facts |-> Undefined, detail |-> NoDetail] :
             b \in {"null", "unparseable"} }

\* the answers to the POST: its response body is never read, so one OK answer
PostResponses == { r \in Responses : r.status = "ok" => (r.body = "object" /\ r.facts = Undefined) }

(***************************************************************************)
(* Initial state: the four useState calls.                                 *)
(***************************************************************************)

Init ==
    /\ variant \in {"fetch", "axios"}
    /\ cityName = <<>>
    /\ cityFacts = Str(<<>>)
    /\ isLoading = FALSE
    /\ error = ""
    /\ pc = "idle"
    /\ closureCityName = <<>>
    /\ response = NoResponse
    /\ requests = <<>>
    /\ responses = <<>>
    /\ lastEvent = "init"
    /\ factsBefore = Str(<<>>)

(***************************************************************************)
(* The input's onChange.  The input is disabled while isLoading.           *)
(***************************************************************************)

onChangeResets(value) ==
    /\ ~isLoading
    /\ value # cityName
    /\ cityName' = value
    /\ error' = ""
    /\ lastEvent' = "onChange"
    /\ UNCHANGED <<variant, factsBefore, cityFacts, isLoading, pc, closureCityName, response,
                   requests, responses>>

onChangeWhileLoading(value) ==
    /\ value # cityName
    /\ cityName' = value
    /\ lastEvent' = "onChange"
    /\ UNCHANGED <<variant, factsBefore, cityFacts, isLoading, error, pc, closureCityName, response,
                   requests, responses>>

onChange(value) ==
    /\ ~isLoading
    /\ value # cityName
    /\ cityName' = value
    /\ lastEvent' = "onChange"
    /\ UNCHANGED <<variant, factsBefore, cityFacts, isLoading, error, pc, closureCityName, response,
                   requests, responses>>

(***************************************************************************)
(* handleSubmit up to its first await.  The submit button and the input    *)
(* are disabled while isLoading, so the form cannot be submitted then.     *)
(***************************************************************************)

beginLoadingKeepsError == isLoading' = TRUE /\ UNCHANGED error

\* setIsLoading(true); setError("")
beginLoading == isLoading' = TRUE /\ error' = ""

handleSubmitNotDisabled ==
    /\ lastEvent' = "handleSubmit"
    /\ factsBefore' = cityFacts
    /\ IF Trim(cityName) = <<>>
       THEN /\ error' = "Please enter a city name"
            /\ UNCHANGED <<variant, cityName, cityFacts, isLoading, pc, closureCityName,
                           response, requests, responses>>
       ELSE /\ beginLoading
            /\ closureCityName' = cityName
            /\ requests' = << GetCity(cityName) >>
            /\ responses' = <<>>
            /\ pc' = IF variant = "fetch" THEN "awaitFetch" ELSE "awaitGet"
            /\ UNCHANGED <<variant, cityName, cityFacts, response>>

handleSubmit ==
    /\ ~isLoading
    /\ lastEvent' = "handleSubmit"
    /\ factsBefore' = cityFacts
    /\ IF Trim(cityName) = <<>>
       THEN /\ error' = "Please enter a city name"
            /\ UNCHANGED <<variant, cityName, cityFacts, isLoading, pc, closureCityName,
                           response, requests, responses>>
       ELSE /\ beginLoading
            /\ closureCityName' = cityName
            /\ requests' = << GetCity(cityName) >>
            /\ responses' = <<>>
            /\ pc' = IF variant = "fetch" THEN "awaitFetch" ELSE "awaitGet"
            /\ UNCHANGED <<variant, cityName, cityFacts, response>>

(***************************************************************************)
(* catch and finally.  err.response?.data?.detail || fallback.             *)
(***************************************************************************)

\* a thrown value without a response property: fetch's TypeError, json()'s
\* SyntaxError, a TypeError from reading a property of null, axios' network error
PlainError == [hasResponse |-> FALSE, detail |-> NoDetail]

\* axios' rejection for a response with a non-2xx status
HttpError(r) == [hasResponse |-> TRUE, detail |-> r.detail]

errorMessageFallbackOnly(err) == "Failed to fetch city facts"

errorMessage(err) ==
    IF err.hasResponse /\ err.detail.t = "string" /\ err.detail.v # ""
    THEN err.detail.v
    ELSE "Failed to fetch city facts"

finallySkipped == UNCHANGED isLoading

\* finally { setIsLoading(false) }
finally == isLoading' = FALSE

catchNoRelease(err) ==
    /\ error' = errorMessage(err)
    /\ UNCHANGED isLoading
    /\ pc' = "idle"

\* catch (err) { setError(...) } finally { ... }: handleSubmit returns
catch(err) ==
    /\ error' = errorMessage(err)
    /\ finally
    /\ pc' = "idle"

(***************************************************************************)
(* The fetch version (lines 22-42).                                        *)
(***************************************************************************)

\* await fetch(...) settles with r: a rejection, or a Response
onFetch(r) ==
    /\ variant = "fetch"
    /\ pc = "awaitFetch"
    /\ lastEvent' = "onFetch"
    /\ IF r.status = "network_error"
       THEN \* fetch rejects
            /\ catch(PlainError)
            /\ responses' = Append(responses, r)
            /\ UNCHANGED <<variant, factsBefore, cityName, cityFacts, closureCityName, response, requests>>
       ELSE IF r.status = "ok"
       THEN \* response.ok: await response.json()
            /\ response' = r
            /\ pc' = "awaitJson"
            /\ UNCHANGED <<variant, factsBefore, cityName, cityFacts, isLoading, error, closureCityName,
                           requests, responses>>
       ELSE \* setError("Something went wrong")
            /\ error' = "Something went wrong"
            /\ finally
            /\ pc' = "idle"
            /\ responses' = Append(responses, r)
            /\ UNCHANGED <<variant, factsBefore, cityName, cityFacts, closureCityName, response, requests>>

\* await response.json() settles: the body of the held Response is read
onJson ==
    /\ variant = "fetch"
    /\ pc = "awaitJson"
    /\ lastEvent' = "onJson"
    /\ responses' = Append(responses, response)
    /\ response' = NoResponse
    /\ IF response.body = "object"
       THEN \* setCityFacts(data.facts)
            /\ cityFacts' = response.facts
            /\ finally
            /\ pc' = "idle"
            /\ UNCHANGED <<variant, factsBefore, cityName, error, closureCityName, requests>>
       ELSE \* json() rejects, or data is null and data.facts throws
            /\ catch(PlainError)
            /\ UNCHANGED <<variant, factsBefore, cityName, cityFacts, closureCityName, requests>>

(***************************************************************************)
(* The axios version (lines 129-151).  axios rejects on a network error    *)
(* and on a non-2xx status; response.data of an unparseable body is a      *)
(* string, whose facts property is undefined.                              *)
(***************************************************************************)

AxiosErrorPlain(r) == PlainError

AxiosError(r) == IF r.status = "http_error" THEN HttpError(r) ELSE PlainError

\* response.data.facts of a resolved axios response whose data is not null
DataFacts(r) == IF r.body = "object" THEN r.facts ELSE Undefined

\* await axios.get(`/city/${cityName}`) settles with r
onGet(r) ==
    /\ variant = "axios"
    /\ pc = "awaitGet"
    /\ lastEvent' = "onGet"
    /\ responses' = Append(responses, r)
    /\ IF r.status # "ok"
       THEN /\ catch(AxiosError(r))
            /\ UNCHANGED <<variant, factsBefore, cityName, cityFacts, closureCityName, response, requests>>
       ELSE IF r.body = "null"
       THEN /\ catch(PlainError)
            /\ UNCHANGED <<variant, factsBefore, cityName, cityFacts, closureCityName, response, requests>>
       ELSE IF Truthy(DataFacts(r))
       THEN \* setCityFacts(response.data.facts)
            /\ cityFacts' = DataFacts(r)
            /\ finally
            /\ pc' = "idle"
            /\ UNCHANGED <<variant, factsBefore, cityName, error, closureCityName, response, requests>>
       ELSE \* await axios.get(`/city/gemini/${cityName}`)
            /\ requests' = Append(requests, GetGemini(closureCityName))
            /\ pc' = "awaitGemini"
            /\ UNCHANGED <<variant, factsBefore, cityName, cityFacts, isLoading, error, closureCityName,
                           response>>

\* the generation GET settles with r
onGemini(r) ==
    /\ variant = "axios"
    /\ pc = "awaitGemini"
    /\ lastEvent' = "onGemini"
    /\ responses' = Append(responses, r)
    /\ IF r.status # "ok"
       THEN /\ catch(AxiosError(r))
            /\ UNCHANGED <<variant, factsBefore, cityName, cityFacts, closureCityName, response, requests>>
       ELSE IF r.body = "null"
       THEN /\ catch(PlainError)
            /\ UNCHANGED <<variant, factsBefore, cityName, cityFacts, closureCityName, response, requests>>
       ELSE \* setCityFacts(geminiResponse.data.facts); await axios.post(...)
            /\ cityFacts' = DataFacts(r)
            /\ requests' = Append(requests, PostCity(closureCityName, DataFacts(r)))
            /\ pc' = "awaitPost"
            /\ UNCHANGED <<variant, factsBefore, cityName, isLoading, error, closureCityName, response>>

onPostRetries(r) ==
    /\ variant = "axios"
    /\ pc = "awaitPost"
    /\ lastEvent' = "onPost"
    /\ responses' = Append(responses, r)
    /\ IF r.status # "ok" /\ Len(requests) < 4
       THEN /\ requests' = Append(requests, requests[Len(requests)])
            /\ UNCHANGED <<variant, factsBefore, cityName, cityFacts, isLoading, error, pc,
                           closureCityName, response>>
       ELSE /\ finally
            /\ pc' = "idle"
            /\ UNCHANGED <<variant, factsBefore, cityName, cityFacts, error, closureCityName, response,
                           requests>>

\* the POST settles with r
onPost(r) ==
    /\ variant = "axios"
    /\ pc = "awaitPost"
    /\ lastEvent' = "onPost"
    /\ responses' = Append(responses, r)
    /\ IF r.status # "ok"
       THEN /\ catch(AxiosError(r))
            /\ UNCHANGED <<variant, factsBefore, cityName, cityFacts, closureCityName, response, requests>>
       ELSE /\ finally
            /\ pc' = "idle"
            /\ UNCHANGED <<variant, factsBefore, cityName, cityFacts, error, closureCityName, response,
                           requests>>

(***************************************************************************)
(* The specification.                                                      *)
(***************************************************************************)

\* a request of the running submit settles
Settle ==
    \/ \E r \in Responses : onFetch(r)
    \/ onJson
    \/ \E r \in Responses : onGet(r)
    \/ \E r \in Responses : onGemini(r)
    \/ \E r \in PostResponses : onPost(r)

Next ==
    \/ \E value \in CityNames : onChange(value)
    \/ handleSubmit
    \/ Settle

Spec == Init /\ [][Next]_vars

\* every issued request eventually settles
FairSpec == Spec /\ WF_vars(Settle)

(***************************************************************************)
(* Render (lines 82-99, 185-199): the title and the facts area are         *)
(* functions of cityName and cityFacts.                                    *)
(***************************************************************************)

MaxFactsLen == 3

FactsChars == {"a", "\n"}

\* the index of the first newline of s, 0 when it has none
FirstNewline(s) ==
    IF \E i \in 1..Len(s) : s[i] = "\n"
    THEN CHOOSE i \in 1..Len(s) : s[i] = "\n" /\ \A j \in 1..(i - 1) : s[j] # "\n"
    ELSE 0

RECURSIVE SplitLines(_)
SplitLines(s) ==
    IF FirstNewline(s) = 0
    THEN << s >>
    ELSE << SubSeq(s, 1, FirstNewline(s) - 1) >>
            \o SplitLines(SubSeq(s, FirstNewline(s) + 1, Len(s)))

splitNothing(s) == << s >>

\* cityFacts.split("\n")
split(s) == SplitLines(s)

\* the facts-textarea: one <p> per element of the split, or the placeholder
factsTextarea ==
    IF Truthy(cityFacts)
    THEN [kind |-> "lines", p |-> split(cityFacts.v)]
    ELSE [kind |-> "placeholder", p |-> << >>]

\* the facts-title: `About ${cityName}`, or "City Facts Will Appear Here"
factsTitle ==
    IF Truthy(cityFacts)
    THEN [about |-> TRUE, name |-> cityName]
    ELSE [about |-> FALSE, name |-> << >>]

\* the state the fetch version is in after its first submit, of a name n, was
\* answered 200 with a body whose facts field is f
AfterFirstHit(n, f) ==
    /\ variant = "fetch"
    /\ cityName = n
    /\ cityFacts = f
    /\ isLoading = FALSE
    /\ error = ""
    /\ pc = "idle"
    /\ closureCityName = n
    /\ response = NoResponse
    /\ requests = << GetCity(n) >>
    /\ responses = << [status |-> "ok", body |-> "object", facts |-> f, detail |-> NoDetail] >>
    /\ lastEvent = "onJson"
    /\ factsBefore = Str(<<>>)

RenderInit ==
    \E n \in { m \in CityNames : Trim(m) # <<>> } :
        \E f \in {Undefined} \cup { Str(t) : t \in Strings(FactsChars, MaxFactsLen) } :
            AfterFirstHit(n, f)

RenderNext == \E value \in CityNames : onChange(value)

\* the render of every facts string, and of every name edited afterwards
RenderSpec == RenderInit /\ [][RenderNext]_vars

(***************************************************************************)
(* What the claims speak of.                                               *)
(***************************************************************************)

\* a request of the current submit has been issued and has not settled
requestOutstanding == Len(responses) < Len(requests)

SettleEvents == {"onFetch", "onJson", "onGet", "onGemini", "onPost"}

\* the last thing that happened is that a submit settled
JustSettled == pc = "idle" /\ lastEvent \in SettleEvents

\* the string is empty or holds white space only
IsBlank(s) == \A i \in 1..Len(s) : s[i] \in {" ", "\n", "\t"}

\* a response that resolved to a body whose properties can be read
Resolved(r) == r.status = "ok" /\ r.body # "null"

\* a resolved response whose body carries no facts
NoFacts(r) == Resolved(r) /\ ~Truthy(DataFacts(r))

\* the facts area renders the placeholder (cityFacts ? ... : placeholder)
showsPlaceholder == ~Truthy(cityFacts)

(***************************************************************************)
(* C1.  A submit whose city name is empty or white space only issues no    *)
(* request, sets error to "Please enter a city name" and does not enter    *)
(* the loading state.                                                      *)
(***************************************************************************)
C1_BlankSubmitIsLocal ==
    [][ (lastEvent' = "handleSubmit" /\ IsBlank(cityName)) =>
          /\ requests' = requests
          /\ responses' = responses
          /\ pc' = pc
          /\ error' = "Please enter a city name"
          /\ ~isLoading /\ ~isLoading' ]_vars

C1_Witness ==
    /\ lastEvent = "handleSubmit"
    /\ cityName = <<" ">>
    /\ error = "Please enter a city name"
    /\ ~isLoading
    /\ requests = <<>>

(***************************************************************************)
(* C2.  isLoading is true exactly when a request of a submit is still      *)
(* outstanding: false before the submit, true until its last response      *)
(* settles, false afterwards, whatever the outcome.                        *)
(***************************************************************************)
C2_LoadingIffOutstanding == isLoading <=> requestOutstanding

C2_Witness == isLoading /\ requestOutstanding /\ Len(responses) = 2

(***************************************************************************)
(* C3.  Under FairSpec (every issued request eventually settles) a submit  *)
(* that set isLoading eventually clears it, on every exit path.            *)
(***************************************************************************)
C3_LoadingReleased == isLoading ~> ~isLoading

C3_Witness ==
    /\ ~isLoading
    /\ lastEvent = "onPost"
    /\ responses[3].status = "network_error"
    /\ error # ""

(***************************************************************************)
(* C4.  The claim as stated: a submit all of whose responses were OK, each *)
(* with a body that parses to an object, ends in Success: cityFacts        *)
(* non-empty and error empty.                                              *)
(***************************************************************************)
C4_OkGivesSuccess ==
    (JustSettled /\ \A i \in 1..Len(responses) :
                       responses[i].status = "ok" /\ responses[i].body = "object")
        => (Truthy(cityFacts) /\ error = "")

(***************************************************************************)
(* C5.  The claim as stated: after a GET answered with a non-success       *)
(* status, error is "Something went wrong" or the detail the failure       *)
(* carries, and the placeholder is shown.                                  *)
(***************************************************************************)
C5_Original ==
    (JustSettled /\ responses[1].status = "http_error") =>
        /\ \/ error = "Something went wrong"
           \/ responses[1].detail.t = "string" /\ error = responses[1].detail.v
        /\ showsPlaceholder

(***************************************************************************)
(* C5 as amended.  When a GET (the first one or the generation GET) is     *)
(* answered with a non-success status, the submit settles there: in the    *)
(* fetch version error becomes "Something went wrong" whatever the         *)
(* payload; in the axios version error becomes the payload's detail when   *)
(* it is a non-empty string and "Failed to fetch city facts" otherwise;    *)
(* cityFacts is left as it was and no further request is issued.           *)
(***************************************************************************)
C5_NonSuccessStatus ==
    [][ ( /\ pc \in {"awaitFetch", "awaitGet", "awaitGemini"}
          /\ Len(responses') = Len(responses) + 1
          /\ responses'[Len(responses')].status = "http_error" ) =>
          LET d == responses'[Len(responses')].detail IN
          /\ error' = IF variant = "fetch" THEN "Something went wrong"
                      ELSE IF d.t = "string" /\ d.v # "" THEN d.v
                      ELSE "Failed to fetch city facts"
          /\ cityFacts' = cityFacts
          /\ requests' = requests
          /\ ~isLoading'
          /\ pc' = "idle" ]_vars

C5_Witness ==
    /\ JustSettled
    /\ variant = "axios"
    /\ Len(responses) = 1
    /\ responses[1].status = "http_error"
    /\ error = "City not found"
    /\ ~showsPlaceholder

C7_PersistedBeforeRendered ==
    ( /\ variant = "axios"
      /\ Len(responses) >= 2
      /\ Resolved(responses[2])
      /\ cityFacts = DataFacts(responses[2])
      /\ Truthy(cityFacts) )
        => (Len(responses) = 3 /\ responses[3].status = "ok")

(***************************************************************************)
(* C8.  isLoading and a non-empty error never hold together: error is      *)
(* cleared when loading starts and is set only by the segment that ends    *)
(* loading, or by a failed validation, which does not start loading.       *)
(***************************************************************************)
C8_NoErrorWhileLoading == ~(isLoading /\ error # "")

C8_Witness ==
    /\ lastEvent = "onJson"
    /\ error = "Failed to fetch city facts"
    /\ ~isLoading

(***************************************************************************)
(* C9.  The claim as stated: cityFacts is never cleared; once it is        *)
(* non-empty it stays non-empty, whatever is edited, submitted or          *)
(* answered.                                                               *)
(***************************************************************************)
C9_FactsNeverCleared == [][ Truthy(cityFacts) => Truthy(cityFacts') ]_vars

(***************************************************************************)
(* C10.  An edit of the input changes the pending city name only: error,   *)
(* cityFacts and isLoading keep their values and no request is issued.     *)
(***************************************************************************)
C10_EditChangesNameOnly ==
    [][ lastEvent' = "onChange" =>
          UNCHANGED <<error, cityFacts, isLoading, requests, responses, pc>> ]_vars

C10_Witness ==
    /\ lastEvent = "onChange"
    /\ error = "Something went wrong"
    /\ Truthy(cityFacts)
    /\ ~isLoading

(***************************************************************************)
(* More of what the claims speak of.                                       *)
(***************************************************************************)

\* the response that settled in the step
Settled(rs) == rs[Len(rs)]

\* the step resumes handleSubmit with the settling of a request
SettlesRequest == pc # "idle" /\ Len(responses') = Len(responses) + 1

\* the settling of r at the await `stage` makes the try block throw
Thrown(stage, r) ==
    IF variant = "fetch"
    THEN \/ stage = "awaitFetch" /\ r.status = "network_error"
         \/ stage = "awaitJson" /\ r.body # "object"
    ELSE \/ r.status # "ok"
         \/ stage \in {"awaitGet", "awaitGemini"} /\ r.body = "null"

\* the failure carries a message: err.response.data.detail is a non-empty string
CarriesDetail(r) ==
    variant = "axios" /\ r.status = "http_error" /\ r.detail.t = "string" /\ r.detail.v # ""

\* the message a submit that ends at `stage` with r produces, "" when it succeeds
ProducedMessage(stage, r) ==
    IF Thrown(stage, r)
    THEN IF CarriesDetail(r) THEN r.detail.v ELSE "Failed to fetch city facts"
    ELSE IF variant = "fetch" /\ r.status = "http_error" THEN "Something went wrong"
    ELSE ""

\* the city name a request carries: in its path, or in the body of the POST
RequestName(q) == IF q.method = "POST" THEN q.body.name ELSE q.name

\* the latest submit that passed validation has ended and it stored its facts
LatestStoredFacts ==
    /\ pc = "idle"
    /\ responses # <<>>
    /\ IF variant = "fetch"
       THEN responses[1].status = "ok" /\ responses[1].body = "object"
       ELSE \/ Len(responses) = 1 /\ Resolved(responses[1]) /\ Truthy(DataFacts(responses[1]))
            \/ Len(responses) >= 2 /\ Resolved(responses[2])

\* the number of newline characters of s
RECURSIVE Newlines(_)
Newlines(s) ==
    IF s = <<>> THEN 0 ELSE (IF Head(s) = "\n" THEN 1 ELSE 0) + Newlines(Tail(s))

\* the lines joined with a newline between them
RECURSIVE JoinLines(_)
JoinLines(ls) ==
    IF Len(ls) = 1 THEN ls[1] ELSE ls[1] \o << "\n" >> \o JoinLines(Tail(ls))

(***************************************************************************)
(* C11.  Submissions are serialized: a submit starts only when isLoading   *)
(* is false and no request is outstanding, and at most one request is in   *)
(* flight in every state.                                                  *)
(***************************************************************************)
C11_SubmitsSerialized ==
    [][ /\ lastEvent' = "handleSubmit" => (~isLoading /\ ~requestOutstanding)
        /\ Len(requests') - Len(responses') \in {0, 1}
        /\ isLoading' => pc' # "idle" ]_vars

C11_Witness ==
    /\ lastEvent = "handleSubmit"
    /\ isLoading
    /\ Truthy(factsBefore)
    /\ Len(requests) = 1 /\ responses = <<>>

(***************************************************************************)
(* C12.  One error message at a time: a submit of a non-blank name clears  *)
(* error in the segment that issues its request, and when a submit ends    *)
(* error is exactly the message that submit produced, empty on success;    *)
(* nothing of an earlier message is left.                                  *)
(***************************************************************************)
C12_OneErrorReplaces ==
    [][ /\ (lastEvent' = "handleSubmit" /\ ~IsBlank(cityName)) =>
              (error' = "" /\ Len(requests') = 1 /\ responses' = <<>>)
        /\ (SettlesRequest /\ pc' = "idle") =>
              error' = ProducedMessage(pc, Settled(responses')) ]_vars

C12_Witness ==
    /\ JustSettled
    /\ error = ""
    /\ Truthy(factsBefore)
    /\ Truthy(cityFacts)
    /\ cityFacts # factsBefore

(***************************************************************************)
(* C13.  When the settling of a request makes handleSubmit throw, error    *)
(* becomes the detail of the failure's payload when that is a non-empty    *)
(* string and "Failed to fetch city facts" otherwise, and the handler      *)
(* ends there with isLoading false.                                        *)
(***************************************************************************)
C13_ThrownFailureMessage ==
    [][ (SettlesRequest /\ Thrown(pc, Settled(responses'))) =>
            /\ error' = IF CarriesDetail(Settled(responses'))
                        THEN Settled(responses').detail.v
                        ELSE "Failed to fetch city facts"
            /\ pc' = "idle"
            /\ ~isLoading'
            /\ requests' = requests ]_vars

C13_Witness ==
    /\ lastEvent = "onGemini"
    /\ pc = "idle"
    /\ error = "City not found"
    /\ ~isLoading

(***************************************************************************)
(* C14.  No retries, nothing fatal: a submit that ends with an error       *)
(* issues no request in that step, an idle form issues a request only in   *)
(* a submit, no endpoint is called twice in one submit, and whenever the   *)
(* form is idle with an error isLoading is false and a submit of a         *)
(* non-blank name enters loading with one fresh GET for that name.         *)
(***************************************************************************)
C14_NoRetryStillUsable ==
    [][ /\ (SettlesRequest /\ pc' = "idle" /\ error' # "") => requests' = requests
        /\ (pc = "idle" /\ requests' # requests) => lastEvent' = "handleSubmit"
        /\ \A i, j \in 1..Len(requests') :
              (requests'[i].method = requests'[j].method
                 /\ requests'[i].path = requests'[j].path) => i = j
        /\ (pc' = "idle" /\ error' # "") => ~isLoading'
        /\ (lastEvent' = "handleSubmit" /\ ~IsBlank(cityName)) =>
              /\ isLoading'
              /\ Len(requests') = 1
              /\ requests'[1].method = "GET" /\ requests'[1].path = "/city/"
              /\ requests'[1].name = cityName
              /\ responses' = <<>> ]_vars

C14_Witness ==
    /\ JustSettled
    /\ lastEvent = "onPost"
    /\ error = "Failed to fetch city facts"
    /\ ~isLoading
    /\ Len(requests) = 3

(***************************************************************************)
(* C15.  The facts area renders cityFacts split on the newline character:  *)
(* the paragraphs hold no newline, joined by newlines they give cityFacts  *)
(* back (same lines, same order), and there is one more paragraph than     *)
(* there are newlines; when cityFacts is empty the placeholder is          *)
(* rendered.                                                               *)
(***************************************************************************)
C15_RenderedLines ==
    IF Truthy(cityFacts)
    THEN /\ factsTextarea.kind = "lines"
         /\ Len(factsTextarea.p) = Newlines(cityFacts.v) + 1
         /\ \A i \in 1..Len(factsTextarea.p) :
               \A k \in 1..Len(factsTextarea.p[i]) : factsTextarea.p[i][k] # "\n"
         /\ JoinLines(factsTextarea.p) = cityFacts.v
    ELSE factsTextarea.kind = "placeholder"

C15_Witness ==
    /\ lastEvent = "onChange"
    /\ cityFacts = Str(<<"a", "\n", "a">>)
    /\ factsTextarea.p = << <<"a">>, <<"a">> >>

(***************************************************************************)
(* C16.  The claim as stated: when a submit has ended with a non-empty     *)
(* error, cityFacts is what it was when that submit began.                 *)
(***************************************************************************)
C16_ErrorLeavesFacts ==
    (pc = "idle" /\ lastEvent \in SettleEvents \cup {"handleSubmit"} /\ error # "")
        => cityFacts = factsBefore

(***************************************************************************)
(* C17.  The claim as stated: while the facts stored by the latest submit  *)
(* are displayed, the title names the city of that submit's request.       *)
(***************************************************************************)
C17_TitleNamesFetchedCity ==
    (LatestStoredFacts /\ factsTitle.about) => factsTitle.name = requests[1].name

(***************************************************************************)
(* C18.  The city name does not change while a request is outstanding,     *)
(* and every request of a submit (the GET, the generation GET, the name    *)
(* field of the POST) carries the name the submit began with, which is     *)
(* not blank.                                                              *)
(***************************************************************************)
C18_OneNamePerSubmit ==
    [][ /\ requestOutstanding => cityName' = cityName
        /\ requestOutstanding' => requests'[1].name = cityName'
        /\ \A i \in 1..Len(requests') :
              RequestName(requests'[i]) = requests'[1].name /\ ~IsBlank(requests'[1].name) ]_vars

C18_Witness ==
    /\ pc = "awaitPost"
    /\ cityName = <<" ", "P">>
    /\ requests[2].name = <<" ", "P">>
    /\ requests[3].body.name = <<" ", "P">>

====
